---- MODULE Spec2Model ----
(***************************************************************************)
(* GhostGate (src/unnamed/part_000): the run-mode server (configuration    *)
(* load, SIGHUP reload goroutine, http.ServeMux registration, the handler  *)
(* chain hostHandler / gzipMiddleware / cacheMiddleware / static / proxy / *)
(* rate limiter) and the `reload` command-line mode.                       *)
(*                                                                         *)
(* Strings the code compares character by character (request paths, mux    *)
(* patterns, Host headers, domains) are sequences of one-character         *)
(* strings.  Time is counted in ticks of 1/TicksPerSec second.             *)
(***************************************************************************)
EXTENDS Integers, Sequences, FiniteSets, TLC

VARIABLES
    disk,        \* the configuration files: [main, confd]
    pc,          \* position of the server's main goroutine
    config,      \* the `config` variable of main (shared with reloadConfig)
    boot,        \* what each step of startup read from `config`
    mux,         \* http.ServeMux: pattern -> handler
    tlsMode,     \* the TLS configuration the HTTPS server got
    notify,      \* signal.Notify(reloadChan, SIGHUP) has been called
    reloadChan,  \* number of signals buffered in reloadChan (capacity 1)
    gpc,         \* position of the reload goroutine
    sighups,     \* SIGHUPs delivered to the server process: [env, cli]
    cli,         \* position of a `ghostgate -mode reload` process
    now,         \* the clock, in ticks
    limiters,    \* rate.Limiter of each registered proxy route: pattern -> [tokens, last]
    responseCache, \* go-cache: key -> [body, expires]
    log,         \* the requests served so far, with their responses
    inflight     \* the requests being served: handler goroutines that have not returned

vars == <<disk, pc, config, boot, mux, tlsMode, notify, reloadChan, gpc,
          sighups, cli, now, limiters, responseCache, log, inflight>>

-----------------------------------------------------------------------------
(* Bounds of the model *)

MaxReq == 1          \* requests served in one behaviour of Spec
MaxCacheReq == 2     \* requests served in one behaviour of SpecCache
MaxCacheTime == 1    \* ticks the clock advances in SpecCache, besides a long idle period
MaxRateReq == 6      \* requests served in one behaviour of SpecRate
MaxRateTime == 3     \* ticks the clock advances in SpecRate
MaxSighup == 1       \* SIGHUPs the environment sends to the server

(* Program constants *)

TicksPerSec == 2     \* resolution of the model's clock
LimiterRate == 1     \* rate.NewLimiter(1, 5): tokens per second
LimiterBurst == 5    \* rate.NewLimiter(1, 5): bucket capacity
CacheTTLSec == 300   \* cache.New(5*time.Minute, ...)

-----------------------------------------------------------------------------
(* Strings *)

HasPrefix(s, p) == Len(p) <= Len(s) /\ SubSeq(s, 1, Len(p)) = p

P_root == <<"/">>
P_api == <<"/", "a", "p", "i">>
P_apiSlash == P_api \o <<"/">>
P_apiUsers == P_apiSlash \o <<"v", "2", "/", "u", "s", "e", "r", "s">>
P_apikey == P_api \o <<"k", "e", "y">>
P_health == <<"/", "h", "e", "a", "l", "t", "h">>
P_secret == <<"/", "s", "e", "c", "r", "e", "t">>

\* the path segment ".."
DotDot == <<".", ".">>

\* paths that climb out of a static directory two levels deep, such as /srv/a
P_etc == <<"/">> \o DotDot \o <<"/">> \o DotDot \o <<"/", "e", "t", "c">>
P_passwd == P_etc \o <<"/", "p", "a", "s", "s", "w", "d">>
\* the same with the dots percent-encoded
E_dots == <<"%", "2", "e", "%", "2", "e">>
P_etcEnc == <<"/">> \o E_dots \o <<"/">> \o E_dots \o <<"/", "e", "t", "c">>
\* a path with ".." that stays inside the directory: /api/../apikey
P_inside == P_api \o <<"/">> \o DotDot \o P_apikey

\* strings.Split(p, "/"), cur being the segment read so far
RECURSIVE segments(_, _)
segments(p, cur) ==
    IF p = <<>> THEN <<cur>>
    ELSE IF Head(p) = "/" THEN <<cur>> \o segments(Tail(p), <<>>)
    ELSE segments(Tail(p), Append(cur, Head(p)))

\* path.Clean / filepath.Clean on the segments: "" and "." are dropped, ".." removes
\* the segment before it; at the top, ".." is dropped in a rooted path and kept in a
\* relative one
RECURSIVE cleanSegs(_, _, _)
cleanSegs(segs, out, rooted) ==
    IF segs = <<>> THEN out
    ELSE LET sg == Head(segs)
         IN  IF sg = <<>> \/ sg = <<".">> THEN cleanSegs(Tail(segs), out, rooted)
             ELSE IF sg # DotDot THEN cleanSegs(Tail(segs), Append(out, sg), rooted)
             ELSE IF out # <<>> /\ out[Len(out)] # DotDot
             THEN cleanSegs(Tail(segs), SubSeq(out, 1, Len(out) - 1), rooted)
             ELSE IF rooted THEN cleanSegs(Tail(segs), out, rooted)
             ELSE cleanSegs(Tail(segs), Append(out, DotDot), rooted)

RECURSIVE joinSegs(_)
joinSegs(segs) ==
    IF segs = <<>> THEN <<>> ELSE <<"/">> \o Head(segs) \o joinSegs(Tail(segs))

pathOf(segs) == IF segs = <<>> THEN <<"/">> ELSE joinSegs(segs)

\* url.PathUnescape, for the one escape the requests use: %2e is "."
RECURSIVE unescape(_)
unescape(p) ==
    IF p = <<>> THEN <<>>
    ELSE IF Len(p) >= 3 /\ SubSeq(p, 1, 3) = <<"%", "2", "e">>
    THEN <<".">> \o unescape(SubSeq(p, 4, Len(p)))
    ELSE <<Head(p)>> \o unescape(Tail(p))

D_a == <<"a", ".", "c", "o", "m">>
D_b == <<"b", ".", "c", "o", "m">>
H_aPort == D_a \o <<":", "4", "4", "3">>
H_other == <<"c", ".", "o", "r", "g">>
\* a Host that begins with the domain and a colon, and has no port after it
H_aJunk == D_a \o <<":", "x">>

-----------------------------------------------------------------------------
(* Configuration: type Config / DomainConfig, and the files they come from *)

Route(path, backend) == [path |-> path, backend |-> backend]

Domain(domain, staticDir, proxyRoutes) ==
    [domain |-> domain, staticDir |-> staticDir, proxyRoutes |-> proxyRoutes]

Cfg(port, tlsCert, domains) == [port |-> port, tlsCert |-> tlsCert, domains |-> domains]

B1 == "http://localhost:3000"
BadBackend == "http://[::1"

\* url.Parse fails on this backend string only
urlParseFails(backend) == backend = BadBackend

\* no domains: the welcome page
CfgNone == Cfg(443, "", <<>>)
\* one virtual host with a static directory and a literal route
CfgOne == Cfg(443, "", << Domain(D_a, "/srv/a", << Route(P_api, B1) >>) >>)
\* the README's per-domain example: two domains, each with a static_dir
CfgReadme == Cfg(443, "", << Domain(D_a, "/srv/a", << Route(P_api, B1) >>),
                            Domain(D_b, "/srv/b", <<>>) >>)
\* a static domain, and another domain that only proxies /api
CfgCross == Cfg(443, "", << Domain(D_a, "/srv/a", <<>>),
                           Domain(D_b, "", << Route(P_api, B1) >>) >>)
\* a domain without static_dir whose route is a subtree pattern
CfgSubtree == Cfg(443, "", << Domain(D_a, "", << Route(P_apiSlash, B1) >>) >>)
\* the same domain listed twice
CfgDup == Cfg(443, "", << Domain(D_a, "/srv/a", <<>>), Domain(D_a, "/srv/a2", <<>>) >>)
\* another site, with its own certificate
CfgB == Cfg(443, "b.pem", << Domain(D_b, "/srv/b", << Route(P_api, B1) >>) >>)

\* a file's content: YAML that parses to cfg, YAML that does not, or no file
Yaml(c) == [kind |-> "yaml", cfg |-> c]
BadYaml == [kind |-> "unparseable", cfg |-> CfgNone]
NoFile == [kind |-> "missing", cfg |-> CfgNone]

\* a directory entry of conf.d: its name ends in ".conf" or not
ConfFile(isConf, content) == [isConf |-> isConf, content |-> content]
Disk(main, hasConfDir, confd) == [main |-> main, hasConfDir |-> hasConfDir, confd |-> confd]

InitConfigs == {CfgNone, CfgOne, CfgReadme, CfgCross, CfgSubtree, CfgDup}

\* what the operator may leave on disk before sending SIGHUP
EditedDisks ==
    { Disk(Yaml(CfgB), TRUE, <<>>),
      Disk(Yaml(CfgNone), TRUE, <<>>),
      Disk(Yaml(CfgNone), TRUE, << ConfFile(TRUE, Yaml(CfgOne)), ConfFile(FALSE, Yaml(CfgB)) >>),
      Disk(BadYaml, TRUE, <<>>) }

Ok(c) == [err |-> FALSE, config |-> c]
Err == [err |-> TRUE, config |-> CfgNone]

loadConfig(file) == IF file.kind = "yaml" THEN Ok(file.cfg) ELSE Err

RECURSIVE mergeConfd(_, _)
mergeConfd(domains, files) ==
    IF files = <<>> THEN domains
    ELSE LET f == Head(files)
             r == loadConfig(f.content)
         IN  IF f.isConf /\ ~r.err
             THEN mergeConfd(domains \o r.config.domains, Tail(files))
             ELSE mergeConfd(domains, Tail(files))

loadConfigs(d) ==
    LET m == loadConfig(d.main)
    IN  IF m.err THEN Err
        ELSE IF ~d.hasConfDir THEN Err
        ELSE Ok([m.config EXCEPT !.domains = mergeConfd(m.config.domains, d.confd)])

-----------------------------------------------------------------------------
(* http.ServeMux: a set of [pattern, h]; Handle panics on a pattern that is
   empty or already registered *)

Handler(kind, domain, target) == [kind |-> kind, domain |-> domain, target |-> target]

muxPatterns(m) == {e.pattern : e \in m}
muxEntry(m, pattern) == CHOOSE e \in m : e.pattern = pattern

\* the state of a registration run: the mux so far, or a panic
Built(panicked, m) == [panic |-> panicked, mux |-> m]

muxHandle(b, pattern, h) ==
    IF b.panic THEN b
    ELSE IF pattern = <<>> \/ pattern \in muxPatterns(b.mux) THEN Built(TRUE, b.mux)
    ELSE Built(FALSE, b.mux \cup {[pattern |-> pattern, h |-> h]})

RECURSIVE registerRoutes(_, _, _)
registerRoutes(b, d, routes) ==
    IF routes = <<>> THEN b
    ELSE LET route == Head(routes)
         IN  IF urlParseFails(route.backend)
             THEN registerRoutes(b, d, Tail(routes))
             ELSE registerRoutes(
                      muxHandle(b, route.path, Handler("proxy", d.domain, route.backend)),
                      d, Tail(routes))

registerDomain(b, d) ==
    LET s == IF d.staticDir # ""
             THEN muxHandle(b, P_root, Handler("static", d.domain, d.staticDir))
             ELSE b
    IN  registerRoutes(s, d, d.proxyRoutes)

RECURSIVE registerDomains(_, _)
registerDomains(b, domains) ==
    IF domains = <<>> THEN b
    ELSE registerDomains(registerDomain(b, Head(domains)), Tail(domains))

\* (mutant) /health registered whatever the configuration
registerFallbackHealthAlways(b, c) == muxHandle(b, P_health, Handler("health", <<>>, ""))

registerFallback(b, c) ==
    IF Len(c.domains) = 0
    THEN muxHandle(b, P_root, Handler("welcome", <<>>, ""))
    ELSE muxHandle(b, P_health, Handler("health", <<>>, ""))

\* ServeMux.Handler for a clean request path: the exact pattern, else the longest
\* registered pattern ending in "/" that is a prefix of the path, else a redirect to
\* path + "/" when that is registered, else NotFound
endsInSlash(p) == Len(p) > 0 /\ p[Len(p)] = "/"

muxSubtrees(m, path) == {q \in muxPatterns(m) : endsInSlash(q) /\ HasPrefix(path, q)}

muxMatch(m, path) ==
    IF path \in muxPatterns(m) THEN path
    ELSE LET cands == muxSubtrees(m, path)
         IN  IF cands = {} THEN <<>>
             ELSE CHOOSE q \in cands : \A o \in cands : Len(o) <= Len(q)

muxRedirects(m, path) ==
    /\ path \notin muxPatterns(m)
    /\ (path \o <<"/">>) \in muxPatterns(m)
    /\ ~endsInSlash(path)

\* net/http cleanPath: path.Clean of the rooted path, a trailing slash kept
cleanPath(p) ==
    LET np == pathOf(cleanSegs(segments(p, <<>>), <<>>, TRUE))
    IN  IF endsInSlash(p) /\ np # <<"/">> THEN np \o <<"/">> ELSE np

\* the escaped paths that requests carry
RawPaths ==
    {P_root, P_api, P_apiSlash, P_apiUsers, P_apikey, P_health, P_secret,
     P_etc, P_etcEnc, P_passwd, P_inside}

\* cleanPath of each of them
cleaned == [p \in RawPaths |-> cleanPath(p)]

\* the path ServeMux matches: the escaped path, cleaned unless the method is CONNECT
muxPath(r) == IF r.method = "CONNECT" THEN r.raw ELSE cleaned[r.raw]

\* ServeMux redirects a request whose escaped path is not its cleaned form
muxCleans(r) == muxPath(r) # r.raw

-----------------------------------------------------------------------------
(* Requests and responses *)

\* a request: r.Method, r.Host, r.URL.Path (decoded), the escaped path as sent,
\* r.RemoteAddr, and whether Accept-Encoding has gzip
ReqRaw(method, host, raw, remote, gzip) ==
    [method |-> method, host |-> host, path |-> unescape(raw), raw |-> raw,
     remote |-> remote, gzip |-> gzip]

\* a GET whose path needs no escaping
Req(host, path, remote, gzip) == ReqRaw("GET", host, path, remote, gzip)

\* a body: a fixed text, or content that belongs to a directory or backend
Body(text, dir, path) == [text |-> text, dir |-> dir, path |-> path, gz |-> FALSE]
Text(t) == Body(t, "", <<>>)

Resp(status, ctype, cacheControl, body) ==
    [status |-> status, ctype |-> ctype, cacheControl |-> cacheControl,
     encoding |-> "", body |-> body]

\* http.Error
httpError(text, status) == Resp(status, "text/plain; charset=utf-8", "", Text(text))

\* no status and no byte written yet: the handler has not returned
Pending == Resp(0, "", "", Text(""))

\* the calls a handler makes on the client's http.ResponseWriter: WriteHeader
\* followed by Write, as in w.WriteHeader(code); w.Write(body) and in http.Error
HeaderThenBody == <<"WriteHeader", "Write">>

\* the outcome of serving one request: the response, the shared stores after it,
\* the terminal handler that ran ("" when none did), the backend call made and how
\* the backend behaved, the limiter consulted and what the request saw there, and
\* the calls made on the client's ResponseWriter
Out(resp, cache, lims, ran, owner) ==
    [resp |-> resp, cache |-> cache, lims |-> lims, ran |-> ran, owner |-> owner,
     fwd |-> FALSE, xff |-> "", outcome |-> "", limited |-> <<>>, full |-> FALSE,
     hit |-> FALSE, writes |-> HeaderThenBody]

-----------------------------------------------------------------------------
(* The files under every static directory: "/" and "/api" are directories,
   "/api/v2/users" is a file, nothing else exists *)

\* filepath.Join(staticDir, r.URL.Path): the cleaned path below staticDir, without
\* a trailing slash; leading ".." segments that remain climb out of staticDir
joinClean(path) == pathOf(cleanSegs(segments(path, <<>>), <<>>, FALSE))

\* os.Stat.  Below a static directory: "/" and "/api" are directories,
\* "/api/v2/users" is a file, "/secret" may not be read.  Two levels above it is the
\* root of the file system, with the directory /etc and the file /etc/passwd.
osStat(dir, path) ==
    IF path \in {P_root, P_api, P_etc} THEN "dir"
    ELSE IF path \in {P_apiUsers, P_passwd} THEN "file"
    ELSE IF path = P_secret THEN "denied"
    ELSE "none"

\* http.ServeFile refuses a request whose URL path has a ".." segment
containsDotDot(path) == \E i \in 1..Len(segments(path, <<>>)) : segments(path, <<>>)[i] = DotDot

\* http.ServeFile sends the headers of the file and no body to a HEAD request; the
\* directory index is written whatever the method
serveStaticFilesWithCache(staticDir, r) ==
    LET filePath == joinClean(r.path)
        info == osStat(staticDir, filePath)
    IN  IF info = "none" THEN httpError("404 - Not Found", 404)
        ELSE IF info = "denied" THEN httpError("403 - Forbidden", 403)
        ELSE IF info = "dir"
        THEN Resp(200, "text/html", "", Body("listing", staticDir, filePath))
        ELSE IF containsDotDot(r.path)
        THEN [httpError("invalid URL path", 400) EXCEPT !.cacheControl = "public, max-age=3600"]
        ELSE IF r.method = "HEAD"
        THEN Resp(200, "application/octet-stream", "public, max-age=3600", Text(""))
        ELSE Resp(200, "application/octet-stream", "public, max-age=3600",
                  Body("file", staticDir, filePath))

serveHealthCheck == Resp(200, "", "", Text("OK"))

serveWelcomePage == Resp(200, "text/html", "", Text("Welcome to GhostGate"))

-----------------------------------------------------------------------------
(* responseCache and cacheMiddleware *)

CacheTTL == CacheTTLSec * TicksPerSec

NoEntries == [k \in {} |-> k]

cacheKey(r) == r.raw       \* r.URL.String(): the escaped path (requests carry no query)

cacheFound(cache, key, t) == key \in DOMAIN cache /\ t <= cache[key].expires

cacheSet(cache, key, body, t) ==
    [k \in DOMAIN cache \cup {key} |->
        IF k = key THEN [body |-> body, expires |-> t + CacheTTL] ELSE cache[k]]

\* (mutant) a cacheMiddleware that lets the handler write to w and then copies the
\* response to w once more
cacheMiddlewareWritesTwice(cache, t, r, next) ==
    IF cacheFound(cache, cacheKey(r), t)
    THEN [resp |-> Resp(200, "", "", cache[cacheKey(r)].body), cache |-> cache,
          hit |-> TRUE, writes |-> <<"Write">>]
    ELSE [resp |-> next, cache |-> cacheSet(cache, cacheKey(r), next.body, t),
          hit |-> FALSE, writes |-> HeaderThenBody \o HeaderThenBody]

\* on a hit only the stored body is written: no status, no headers; on a miss the
\* handler writes to a recorder, whose code and body are then written to w
cacheMiddleware(cache, t, r, next) ==
    IF cacheFound(cache, cacheKey(r), t)
    THEN [resp |-> Resp(200, "", "", cache[cacheKey(r)].body), cache |-> cache,
          hit |-> TRUE, writes |-> <<"Write">>]
    ELSE [resp |-> next, cache |-> cacheSet(cache, cacheKey(r), next.body, t),
          hit |-> FALSE, writes |-> HeaderThenBody]

\* gzipMiddleware: the body goes through a gzip.Writer when the client accepts gzip
gzipMiddleware(r, resp) ==
    IF r.gzip
    THEN [resp EXCEPT !.encoding = "gzip", !.body = [resp.body EXCEPT !.gz = TRUE]]
    ELSE resp

\* gzipResponseWriter: WriteHeader goes to the client's writer as it is, Write goes
\* through the gzip.Writer, and the deferred gz.Close writes what is left
gzipWrites(r, writes) == IF r.gzip THEN Append(writes, "Write") ELSE writes

\* net/http sets Content-Type from the first bytes written when no header was set
sniffed(resp) ==
    IF resp.ctype # "" \/ resp = Pending THEN resp
    ELSE [resp EXCEPT !.ctype =
            IF resp.body.gz THEN "application/x-gzip"
            ELSE IF resp.body.text = "listing" THEN "text/html; charset=utf-8"
            ELSE "text/plain; charset=utf-8"]

-----------------------------------------------------------------------------
(* rate.Limiter: tokens are counted in 1/TicksPerSec of a token *)

OneToken == TicksPerSec
BucketFull == LimiterBurst * TicksPerSec

newLimiter(t) == [tokens |-> BucketFull, last |-> t]

Min(a, b) == IF a <= b THEN a ELSE b

\* (mutant) a bucket that keeps filling beyond its burst
advanceUncapped(lim, t) == lim.tokens + (t - lim.last) * LimiterRate

\* Limiter.advance: the tokens at time t
advance(lim, t) == Min(BucketFull, lim.tokens + (t - lim.last) * LimiterRate)

limiterAllows(lim, t) == advance(lim, t) >= OneToken

\* (mutant) Allow that lets the request through without taking a token
limiterTakeNothing(lim, t) == [tokens |-> advance(lim, t), last |-> t]

\* Limiter.Allow when it returns true: one token is taken
limiterTake(lim, t) == [tokens |-> advance(lim, t) - OneToken, last |-> t]

-----------------------------------------------------------------------------
(* The handler chain *)

\* (mutant) a host check that lets every Host through
hostMatchesAny(domain, host) == TRUE

\* hostHandler's test of the Host header
hostMatches(domain, host) == host = domain \/ HasPrefix(host, domain \o <<":">>)

hostNotFound == Resp(404, "", "", Text("404 - Not Found"))

BackendOutcomes == {"ok", "refused"}

\* how a backend may fail: the connection is refused, the dial times out (the
\* default transport's 30 s dialer), or the answer is not an HTTP response
BackendFailures == {"refused", "dialTimeout", "malformed"}

\* (mutant) a proxy that answers a failed round trip with the transport's error as
\* a plain 500
proxyServeError500(backend, r, outcome) ==
    IF outcome = "ok" THEN Resp(200, "backend", "", Body("backend", backend, r.path))
    ELSE Resp(500, "", "", Text("transport error"))

\* httputil.ReverseProxy with http.DefaultTransport: the backend's answer; 502 from
\* the default ErrorHandler when the round trip fails; nothing while the backend has
\* accepted the connection and sent no response (no ResponseHeaderTimeout is set)
proxyServe(backend, r, outcome) ==
    IF outcome = "ok" THEN Resp(200, "backend", "", Body("backend", backend, r.path))
    ELSE IF outcome = "hang" THEN Pending
    ELSE Resp(502, "", "", Text(""))

\* ReverseProxy on the client's writer: header and body of the backend's answer,
\* WriteHeader(502) alone from the error handler, nothing while it waits
proxyWrites(outcome) ==
    IF outcome = "ok" THEN HeaderThenBody
    ELSE IF outcome = "hang" THEN <<>>
    ELSE <<"WriteHeader">>

\* (mutant) a rateLimitedProxy that sets X-Forwarded-For before it asks the limiter
serveProxyHeaderFirst(pattern, h, cache, lims, t, r, outcome) ==
    LET lim == lims[pattern]
        base == [Out(hostNotFound, cache, lims, "", h.domain) EXCEPT
                    !.limited = pattern, !.full = advance(lim, t) = BucketFull,
                    !.xff = r.remote]
    IN  IF ~limiterAllows(lim, t)
        THEN [base EXCEPT !.resp = httpError("429 - Too Many Requests", 429)]
        ELSE [base EXCEPT !.resp = proxyServe(h.target, r, outcome),
                          !.writes = proxyWrites(outcome),
                          !.lims = [lims EXCEPT ![pattern] = limiterTake(lim, t)],
                          !.ran = "proxy", !.fwd = TRUE, !.outcome = outcome]

\* rateLimitedProxy(proxy, limiter) behind hostHandler
serveProxy(pattern, h, cache, lims, t, r, outcome) ==
    LET lim == lims[pattern]
        base == [Out(hostNotFound, cache, lims, "", h.domain) EXCEPT
                    !.limited = pattern, !.full = advance(lim, t) = BucketFull]
    IN  IF ~limiterAllows(lim, t)
        THEN [base EXCEPT !.resp = httpError("429 - Too Many Requests", 429)]
        ELSE [base EXCEPT !.resp = proxyServe(h.target, r, outcome),
                          !.writes = proxyWrites(outcome),
                          !.lims = [lims EXCEPT ![pattern] = limiterTake(lim, t)],
                          !.ran = "proxy", !.fwd = TRUE, !.xff = r.remote,
                          !.outcome = outcome]

\* (mutant) the two middlewares in the other order: the cache around the compression
serveStaticCacheOutside(h, cache, lims, t, r) ==
    LET c == cacheMiddleware(cache, t, r,
                             gzipMiddleware(r, serveStaticFilesWithCache(h.target, r)))
    IN  [Out(c.resp, c.cache, lims, IF c.hit THEN "" ELSE "static", h.domain) EXCEPT
            !.hit = c.hit, !.writes = gzipWrites(r, c.writes)]

\* gzipMiddleware(cacheMiddleware(serveStaticFilesWithCache(dir))) behind hostHandler
serveStatic(h, cache, lims, t, r) ==
    LET c == cacheMiddleware(cache, t, r, serveStaticFilesWithCache(h.target, r))
    IN  [Out(gzipMiddleware(r, c.resp), c.cache, lims,
             IF c.hit THEN "" ELSE "static", h.domain) EXCEPT
            !.hit = c.hit, !.writes = gzipWrites(r, c.writes)]

\* (mutant) a route whose limiter is asked before the Host is looked at
hostHandlerAfterLimiter(pattern, h, cache, lims, t, r, outcome) ==
    IF h.kind = "static"
    THEN IF hostMatches(h.domain, r.host) THEN serveStatic(h, cache, lims, t, r)
         ELSE Out(hostNotFound, cache, lims, "", <<>>)
    ELSE LET o == serveProxy(pattern, h, cache, lims, t, r, outcome)
         IN  IF hostMatches(h.domain, r.host) THEN o
             ELSE Out(hostNotFound, cache, o.lims, "", <<>>)

hostHandler(pattern, h, cache, lims, t, r, outcome) ==
    IF ~hostMatches(h.domain, r.host) THEN Out(hostNotFound, cache, lims, "", <<>>)
    ELSE IF h.kind = "static" THEN serveStatic(h, cache, lims, t, r)
    ELSE serveProxy(pattern, h, cache, lims, t, r, outcome)

\* the mux as the HTTPS server's handler
serveHTTP(m, cache, lims, t, r, outcome) ==
    LET pattern == muxMatch(m, muxPath(r))
        h == muxEntry(m, pattern).h
        o == IF muxRedirects(m, muxPath(r)) \/ muxCleans(r)
             THEN Out(Resp(301, "text/html; charset=utf-8", "", Text("Moved Permanently")),
                      cache, lims, "", <<>>)
             ELSE IF pattern = <<>>
             THEN Out(httpError("404 page not found", 404), cache, lims, "", <<>>)
             ELSE IF h.kind = "welcome"
             THEN Out(serveWelcomePage, cache, lims, "welcome", <<>>)
             ELSE IF h.kind = "health"
             THEN Out(serveHealthCheck, cache, lims, "health", <<>>)
             ELSE hostHandler(pattern, h, cache, lims, t, r, outcome)
    IN  [o EXCEPT !.resp = sniffed(o.resp)]

-----------------------------------------------------------------------------
(* The server process: main() in run mode *)

\* the files at startup: a main file with an empty conf.d, no main file, or a main
\* file without the conf.d directory
InitDisks ==
    {Disk(Yaml(c), TRUE, <<>>) : c \in InitConfigs}
        \cup {Disk(NoFile, TRUE, <<>>), Disk(Yaml(CfgOne), FALSE, <<>>)}

Init ==
    /\ disk \in InitDisks
    /\ pc = "notify"
    /\ config = CfgNone
    /\ boot = <<>>
    /\ mux = {}
    /\ tlsMode = ""
    /\ notify = FALSE
    /\ reloadChan = 0
    /\ gpc = "none"
    /\ sighups = [env |-> 0, cli |-> 0]
    /\ cli = "none"
    /\ now = 0
    /\ limiters = NoEntries
    /\ responseCache = NoEntries
    /\ log = <<>>
    /\ inflight = <<>>

\* the process exists and has not exited
alive == pc \notin {"fatal", "panicked", "killed"}

\* signal.Notify(reloadChan, syscall.SIGHUP)
Notify ==
    /\ pc = "notify"
    /\ notify' = TRUE
    /\ pc' = "load"
    /\ UNCHANGED <<disk, config, boot, mux, tlsMode, reloadChan, gpc, sighups, cli, now, limiters, responseCache, log, inflight>>

\* config, err := loadConfigs(...); log.Fatalf on error
LoadConfigs ==
    /\ pc = "load"
    /\ LET r == loadConfigs(disk)
       IN  IF r.err
           THEN pc' = "fatal" /\ UNCHANGED <<config, boot>>
           ELSE pc' = "spawn" /\ config' = r.config /\ boot' = <<r.config>>
    /\ UNCHANGED <<disk, mux, tlsMode, notify, reloadChan, gpc, sighups, cli, now, limiters, responseCache, log, inflight>>

\* go func() { for { <-reloadChan; reloadConfig() } }()
SpawnReloader ==
    /\ pc = "spawn"
    /\ gpc' = "recv"
    /\ pc' = "domains"
    /\ UNCHANGED <<disk, config, boot, mux, tlsMode, notify, reloadChan, sighups, cli, now, limiters, responseCache, log, inflight>>

proxyPatterns(m) == {e.pattern : e \in {x \in m : x.h.kind = "proxy"}}

\* for _, d := range config.Domains { mux.Handle(...) ... }
SetupDomains ==
    /\ pc = "domains"
    /\ LET b == registerDomains(Built(FALSE, {}), config.domains)
       IN  /\ mux' = b.mux
           /\ limiters' = [p \in proxyPatterns(b.mux) |-> newLimiter(now)]
           /\ pc' = IF b.panic THEN "panicked" ELSE "fallback"
    /\ boot' = Append(boot, config)
    /\ UNCHANGED <<disk, config, tlsMode, notify, reloadChan, gpc, sighups, cli, now, responseCache, log, inflight>>

\* if len(config.Domains) == 0 { welcome } else { /health }
SetupFallback ==
    /\ pc = "fallback"
    /\ LET b == registerFallback(Built(FALSE, mux), config)
       IN  /\ mux' = b.mux
           /\ pc' = IF b.panic THEN "panicked" ELSE "tlsCheck"
    /\ boot' = Append(boot, config)
    /\ UNCHANGED <<disk, config, tlsMode, notify, reloadChan, gpc, sighups, cli, now, limiters, responseCache, log, inflight>>

\* if config.Server.TLSCert != "" && config.Server.TLSKey != "" ... else autocert;
\* with autocert the HTTPS server starts
TlsCheck ==
    /\ pc = "tlsCheck"
    /\ IF config.tlsCert # ""
       THEN pc' = "tlsLoad" /\ UNCHANGED tlsMode
       ELSE pc' = "serving" /\ tlsMode' = "autocert"
    /\ boot' = Append(boot, config)
    /\ UNCHANGED <<disk, config, mux, notify, reloadChan, gpc, sighups, cli, now, limiters, responseCache, log, inflight>>

\* tls.LoadX509KeyPair(config.Server.TLSCert, config.Server.TLSKey), then the
\* HTTPS server starts; log.Fatalf when the pair cannot be loaded
TlsLoad ==
    /\ pc = "tlsLoad"
    /\ IF config.tlsCert = ""
       THEN pc' = "fatal" /\ UNCHANGED tlsMode
       ELSE pc' = "serving" /\ tlsMode' = config.tlsCert
    /\ boot' = Append(boot, config)
    /\ UNCHANGED <<disk, config, mux, notify, reloadChan, gpc, sighups, cli, now, limiters, responseCache, log, inflight>>

-----------------------------------------------------------------------------
(* The reload goroutine *)

\* <-reloadChan
ReloadRecv ==
    /\ alive
    /\ gpc = "recv"
    /\ reloadChan > 0
    /\ reloadChan' = reloadChan - 1
    /\ gpc' = "reload"
    /\ UNCHANGED <<disk, pc, config, boot, mux, tlsMode, notify, sighups, cli, now, limiters, responseCache, log, inflight>>

\* reloadConfig(): config = newConfig unless loadConfigs failed
ReloadConfig ==
    /\ alive
    /\ gpc = "reload"
    /\ LET r == loadConfigs(disk)
       IN  IF r.err
           THEN UNCHANGED config
           ELSE config' = r.config
    /\ gpc' = "recv"
    /\ UNCHANGED <<disk, pc, boot, mux, tlsMode, notify, reloadChan,
                   sighups, cli, now, limiters, responseCache, log, inflight>>

-----------------------------------------------------------------------------
(* Signals, the operator, and the `reload` command *)

ServerPid == "ghostgate -mode run"
CliPid == "ghostgate -mode reload"

\* os.Getpid() in a process
getpid(process) == process

\* (mutant) the same with reloadChan made without a buffer: a signal is dropped
\* unless the goroutine is waiting at the receive
deliverSighupUnbuffered ==
    IF ~notify THEN pc' = "killed" /\ UNCHANGED reloadChan
    ELSE pc' = pc /\ reloadChan' = IF gpc = "recv" THEN 1 ELSE reloadChan

\* a SIGHUP reaches the server: without signal.Notify it terminates the process,
\* with it the signal is queued unless reloadChan is full
deliverSighup ==
    IF ~notify THEN pc' = "killed" /\ UNCHANGED reloadChan
    ELSE pc' = pc /\ reloadChan' = Min(1, reloadChan + 1)

\* syscall.Kill(pid, syscall.SIGHUP) by `sender`.  The reload command calls no
\* signal.Notify: a SIGHUP sent to it ends it, unless its os.Exit(0) comes first.
kill(sender, pid) ==
    IF pid = ServerPid
    THEN /\ alive
         /\ sighups' = [sighups EXCEPT ![sender] = @ + 1]
         /\ deliverSighup
         /\ UNCHANGED cli
    ELSE /\ \/ cli' = "killed"
            \/ cli' = "exited"
         /\ UNCHANGED <<sighups, pc, reloadChan>>

\* kill -HUP <pid of the server> (an operator, systemd)
SendSighup ==
    /\ sighups.env < MaxSighup
    /\ kill("env", ServerPid)
    /\ UNCHANGED <<disk, config, boot, mux, tlsMode, notify, gpc, now, limiters, responseCache, log, inflight>>

\* the operator rewrites the configuration files
EditConfig ==
    /\ disk \in InitDisks
    /\ disk' \in EditedDisks \ {disk}
    /\ UNCHANGED <<pc, config, boot, mux, tlsMode, notify, reloadChan, gpc, sighups, cli, now, limiters, responseCache, log, inflight>>

\* `ghostgate -mode reload` is started while the server serves
CliStart ==
    /\ pc = "serving"
    /\ cli = "none"
    /\ cli' = "reload"
    /\ UNCHANGED <<disk, pc, config, boot, mux, tlsMode, notify, reloadChan, gpc,
                   sighups, now, limiters, responseCache, log, inflight>>

\* reloadGhostGate(): pid := os.Getpid(); syscall.Kill(pid, syscall.SIGHUP)
reloadGhostGate ==
    /\ cli = "reload"
    /\ kill("cli", getpid(CliPid))
    /\ UNCHANGED <<disk, config, boot, mux, tlsMode, notify, gpc, now, limiters, responseCache, log, inflight>>

-----------------------------------------------------------------------------
(* Requests on the TLS listener, and the clock *)

Paths == {P_root, P_api, P_apiSlash, P_apiUsers, P_apikey, P_health}
Hosts == {D_a, H_aPort, D_b, H_other}

Requests == {Req(h, p, "10.0.0.1", FALSE) : h \in Hosts, p \in Paths}

\* httptest.NewRecorder(): nothing recorded, the handler not yet returned
NewRecorder == [code |-> 0, body |-> Text(""), returned |-> FALSE]

\* one request: what was asked and answered; while it is in flight, where its
\* handler stands ("backend": in proxy.ServeHTTP, "handler": in next.ServeHTTP of
\* cacheMiddleware) and the recorder of cacheMiddleware
Entry(r, o) ==
    [req |-> r, resp |-> o.resp, t |-> now, cfg |-> config, listener |-> "https",
     ran |-> o.ran, owner |-> o.owner, fwd |-> o.fwd, xff |-> o.xff,
     outcome |-> o.outcome, limited |-> o.limited, full |-> o.full, hit |-> o.hit,
     writes |-> o.writes,
     stage |-> IF o.resp = Pending THEN "backend" ELSE "done", rec |-> NewRecorder]

\* the HTTPS server serves one request; the request stays in flight when its
\* handler is left waiting for the backend
Request(reqs, outcomes, max) ==
    /\ pc = "serving"
    /\ Len(log) + Len(inflight) < max
    /\ \E r \in reqs, outcome \in outcomes :
          LET o == serveHTTP(mux, responseCache, limiters, now, r, outcome)
          IN  /\ responseCache' = o.cache
              /\ limiters' = o.lims
              /\ IF o.resp = Pending
                 THEN inflight' = Append(inflight, Entry(r, o)) /\ UNCHANGED log
                 ELSE log' = Append(log, Entry(r, o)) /\ UNCHANGED inflight
    /\ UNCHANGED <<disk, pc, config, boot, mux, tlsMode, notify, reloadChan, gpc,
                   sighups, cli, now>>

remove(seq, k) == SubSeq(seq, 1, k - 1) \o SubSeq(seq, k + 1, Len(seq))

\* a backend that had accepted a request sends its response at last
BackendAnswers ==
    /\ pc = "serving"
    /\ \E k \in 1..Len(inflight) :
          LET f == inflight[k]
              backend == muxEntry(mux, f.limited).h.target
          IN  /\ f.stage = "backend"
              /\ log' = Append(log, [f EXCEPT !.resp = sniffed(proxyServe(backend, f.req, "ok")),
                                              !.outcome = "ok", !.stage = "done",
                                              !.writes = proxyWrites("ok")])
              /\ inflight' = remove(inflight, k)
    /\ UNCHANGED <<disk, pc, config, boot, mux, tlsMode, notify, reloadChan, gpc,
                   sighups, cli, now, limiters, responseCache>>

\* the HTTP server on :80 redirects every request to https://
RedirectHttp(reqs, max) ==
    /\ pc = "serving"
    /\ Len(log) + Len(inflight) < max
    /\ \E r \in reqs :
          LET o == Out(Resp(301, "text/html; charset=utf-8", "", Text("Moved Permanently")),
                       responseCache, limiters, "", <<>>)
          IN  log' = Append(log, [Entry(r, o) EXCEPT !.listener = "http"])
    /\ UNCHANGED <<disk, pc, config, boot, mux, tlsMode, notify, reloadChan, gpc,
                   sighups, cli, now, limiters, responseCache, inflight>>

Tick(max) ==
    /\ pc = "serving"
    /\ now % CacheTTL < max
    /\ now' = now + 1
    /\ UNCHANGED <<disk, pc, config, boot, mux, tlsMode, notify, reloadChan, gpc,
                   sighups, cli, limiters, responseCache, log, inflight>>

\* a quiet period as long as the cache TTL
Idle ==
    /\ pc = "serving"
    /\ now < CacheTTL
    /\ now' = now + CacheTTL
    /\ UNCHANGED <<disk, pc, config, boot, mux, tlsMode, notify, reloadChan, gpc,
                   sighups, cli, limiters, responseCache, log, inflight>>

\* the server with its reload goroutine, the operator, and clients
Next ==
    \/ Notify \/ LoadConfigs \/ SpawnReloader \/ SetupDomains \/ SetupFallback
    \/ TlsCheck \/ TlsLoad
    \/ ReloadRecv \/ ReloadConfig
    \/ SendSighup \/ EditConfig
    \/ Request(Requests, BackendOutcomes, MaxReq)

Spec == Init /\ [][Next]_vars

\* the server with its reload goroutine, the operator, and the reload command
NextCli ==
    \/ Notify \/ LoadConfigs \/ SpawnReloader \/ SetupDomains \/ SetupFallback
    \/ TlsCheck \/ TlsLoad
    \/ ReloadRecv \/ ReloadConfig
    \/ SendSighup \/ EditConfig \/ CliStart \/ reloadGhostGate

SpecCli == Init /\ [][NextCli]_vars

-----------------------------------------------------------------------------
(* The rate limiter of one route under load: the server of CfgOne, clients at two
   addresses asking for /api, a backend that answers *)

Remotes == {"10.0.0.1", "10.0.0.2"}
RateRequests == {Req(D_a, P_api, ip, FALSE) : ip \in Remotes}

InitRate == Init /\ disk = Disk(Yaml(CfgOne), TRUE, <<>>)

NextRate ==
    \/ Notify \/ LoadConfigs \/ SpawnReloader \/ SetupDomains \/ SetupFallback
    \/ TlsCheck
    \/ Request(RateRequests, {"ok"}, MaxRateReq)
    \/ Tick(MaxRateTime)

SpecRate == InitRate /\ [][NextRate]_vars

(* The response cache: servers with a static directory and a route, repeated
   requests, time passing up to and beyond the TTL *)

CacheRequests ==
    {Req(D_a, p, "10.0.0.1", gz) : p \in {P_root, P_api, P_apikey, P_secret}, gz \in BOOLEAN}

InitCache == Init /\ disk \in {Disk(Yaml(c), TRUE, <<>>) : c \in {CfgOne, CfgCross}}

NextCache ==
    \/ Notify \/ LoadConfigs \/ SpawnReloader \/ SetupDomains \/ SetupFallback
    \/ TlsCheck
    \/ Request(CacheRequests, BackendOutcomes, MaxCacheReq)
    \/ Tick(MaxCacheTime)
    \/ Idle

SpecCache == InitCache /\ [][NextCache]_vars

(* Reloads: the one-domain server, an operator who leaves files on disk that
   cannot all be read or parsed, and SIGHUPs *)

ReloadDisks ==
    { Disk(BadYaml, TRUE, <<>>),
      Disk(NoFile, TRUE, <<>>),
      Disk(Yaml(CfgB), FALSE, <<>>),
      Disk(Yaml(CfgB), TRUE, << ConfFile(TRUE, BadYaml) >>),
      Disk(Yaml(CfgB), TRUE, << ConfFile(TRUE, NoFile), ConfFile(TRUE, Yaml(CfgOne)) >>),
      Disk(Yaml(CfgB), TRUE, << ConfFile(FALSE, BadYaml) >>) }

\* the operator rewrites the files, any number of times
EditReload ==
    /\ disk' \in ReloadDisks \ {disk}
    /\ UNCHANGED <<pc, config, boot, mux, tlsMode, notify, reloadChan, gpc, sighups, cli,
                   now, limiters, responseCache, log, inflight>>

InitReload == Init /\ disk = Disk(Yaml(CfgOne), TRUE, <<>>)

NextReload ==
    \/ Notify \/ LoadConfigs \/ SpawnReloader \/ SetupDomains \/ SetupFallback
    \/ TlsCheck \/ TlsLoad
    \/ ReloadRecv \/ ReloadConfig
    \/ SendSighup \/ EditReload

SpecReload == InitReload /\ [][NextReload]_vars

(* Path traversal: the one-domain server with its static directory, requests whose
   paths have ".." segments, raw or percent-encoded, with the methods GET and CONNECT *)

MaxTravReq == 2      \* requests served in one behaviour of SpecTraversal

TraversalPaths == {P_root, P_etc, P_etcEnc, P_passwd, P_inside}

TraversalRequests ==
    {ReqRaw(m, D_a, p, "10.0.0.1", gz) :
        m \in {"GET", "CONNECT"}, p \in TraversalPaths, gz \in BOOLEAN}

InitTraversal == Init /\ disk = Disk(Yaml(CfgOne), TRUE, <<>>)

NextTraversal ==
    \/ Notify \/ LoadConfigs \/ SpawnReloader \/ SetupDomains \/ SetupFallback
    \/ TlsCheck
    \/ Request(TraversalRequests, {"ok"}, MaxTravReq)

SpecTraversal == InitTraversal /\ [][NextTraversal]_vars

(* Backends that fail or stall: the one-domain server, requests to its route and
   to its static directory on both listeners *)

MaxBackendReq == 3   \* requests accepted in one behaviour of SpecBackend

BackendRequests == {Req(D_a, p, "10.0.0.1", FALSE) : p \in {P_root, P_api}}

InitBackend == Init /\ disk = Disk(Yaml(CfgOne), TRUE, <<>>)

\* the steps of main
Startup ==
    \/ Notify \/ LoadConfigs \/ SpawnReloader \/ SetupDomains \/ SetupFallback
    \/ TlsCheck

NextBackend ==
    \/ Startup
    \/ Request(BackendRequests, {"ok", "hang"} \cup BackendFailures, MaxBackendReq)
    \/ RedirectHttp(BackendRequests, MaxBackendReq)
    \/ BackendAnswers

SpecBackend == InitBackend /\ [][NextBackend]_vars

\* the same, the goroutines of the server being scheduled; nothing makes a backend
\* answer
SpecHang == SpecBackend /\ WF_vars(Startup)

(* Startup alone: every set of files the server may find, nobody rewriting them or
   signalling the server, and requests once it serves *)

NextBoot ==
    \/ Startup
    \/ Request(Requests, BackendOutcomes, MaxReq)

SpecBoot == Init /\ [][NextBoot]_vars

(* cacheMiddleware step by step: requests to the static directory of the one-domain
   server are served by concurrent handler goroutines.  A request that misses the
   cache runs the static handler into a recorder, the handler writing its body in
   pieces, then writes the recorded response to the client and stores the recorded
   body.  responseCache.Get and responseCache.Set are atomic (go-cache locks). *)

MaxRaceReq == 3      \* requests accepted in one behaviour of SpecRace

RaceRequests == {Req(D_a, p, "10.0.0.1", gz) : p \in {P_root, P_apikey}, gz \in BOOLEAN}

\* the bytes in the recorder before the handler has written them all
partial(body) == [body EXCEPT !.text = "partial"]

\* (mutant) the recorded body stored without waiting for next.ServeHTTP to return
handlerReturnedAny(rec) == TRUE

\* next.ServeHTTP(recorder, r) has returned
handlerReturned(rec) == rec.returned

\* a request arrives: responseCache.Get; on a hit the stored body is written, on a
\* miss the request goes on to the handler
CacheGet(reqs, max) ==
    /\ pc = "serving"
    /\ Len(log) + Len(inflight) < max
    /\ \E r \in reqs :
          LET o == serveHTTP(mux, responseCache, limiters, now, r, "ok")
          IN  IF o.ran = "static"
              THEN /\ inflight' = Append(inflight,
                                         [Entry(r, o) EXCEPT !.resp = Pending, !.writes = <<>>,
                                                             !.ran = "", !.stage = "handler"])
                   /\ UNCHANGED log
              ELSE /\ log' = Append(log, Entry(r, o))
                   /\ UNCHANGED inflight
    /\ UNCHANGED <<disk, pc, config, boot, mux, tlsMode, notify, reloadChan, gpc,
                   sighups, cli, now, limiters, responseCache>>

\* what the static handler of the request's domain produces
staticResponse(r) == serveStaticFilesWithCache(muxEntry(mux, P_root).h.target, r)

\* the handler writes status and the first bytes of the body to the recorder
HandlerWrites ==
    /\ pc = "serving"
    /\ \E k \in 1..Len(inflight) :
          LET f == inflight[k]
          IN  /\ f.stage = "handler" /\ f.rec = NewRecorder
              /\ inflight' = [inflight EXCEPT ![k].rec =
                                 [code |-> staticResponse(f.req).status,
                                  body |-> partial(staticResponse(f.req).body),
                                  returned |-> FALSE]]
    /\ UNCHANGED <<disk, pc, config, boot, mux, tlsMode, notify, reloadChan, gpc,
                   sighups, cli, now, limiters, responseCache, log>>

\* the handler writes the rest and returns
HandlerReturns ==
    /\ pc = "serving"
    /\ \E k \in 1..Len(inflight) :
          LET f == inflight[k]
          IN  /\ f.stage = "handler" /\ f.rec # NewRecorder /\ ~f.rec.returned
              /\ inflight' = [inflight EXCEPT ![k].rec =
                                 [code |-> staticResponse(f.req).status,
                                  body |-> staticResponse(f.req).body,
                                  returned |-> TRUE]]
    /\ UNCHANGED <<disk, pc, config, boot, mux, tlsMode, notify, reloadChan, gpc,
                   sighups, cli, now, limiters, responseCache, log>>

\* the recorded response is written to the client and
\* responseCache.Set(cacheKey, recorder.Body.Bytes(), ...) stores the recorded body
CacheStore ==
    /\ pc = "serving"
    /\ \E k \in 1..Len(inflight) :
          LET f == inflight[k]
              recorded == [staticResponse(f.req) EXCEPT !.status = f.rec.code,
                                                        !.body = f.rec.body]
          IN  /\ f.stage = "handler" /\ handlerReturned(f.rec)
              /\ responseCache' = cacheSet(responseCache, cacheKey(f.req), f.rec.body, now)
              /\ log' = Append(log, [f EXCEPT !.resp = sniffed(gzipMiddleware(f.req, recorded)),
                                              !.writes = gzipWrites(f.req, HeaderThenBody),
                                              !.ran = "static", !.stage = "done"])
              /\ inflight' = remove(inflight, k)
    /\ UNCHANGED <<disk, pc, config, boot, mux, tlsMode, notify, reloadChan, gpc,
                   sighups, cli, now, limiters>>

InitRace == Init /\ disk = Disk(Yaml(CfgOne), TRUE, <<>>)

NextRace ==
    \/ Startup
    \/ CacheGet(RaceRequests, MaxRaceReq)
    \/ HandlerWrites \/ HandlerReturns \/ CacheStore

SpecRace == InitRace /\ [][NextRace]_vars

(* The cache and the request method: the one-domain server, requests for a
   directory and for a file of its static directory with the methods GET, HEAD
   and POST *)

MaxMethodReq == 2    \* requests served in one behaviour of SpecMethod

Methods == {"GET", "HEAD", "POST"}

MethodRequests ==
    {ReqRaw(m, D_a, p, "10.0.0.1", gz) :
        m \in Methods, p \in {P_root, P_apiUsers}, gz \in BOOLEAN}

InitMethod == Init /\ disk = Disk(Yaml(CfgOne), TRUE, <<>>)

NextMethod ==
    \/ Startup
    \/ Request(MethodRequests, {"ok"}, MaxMethodReq)

SpecMethod == InitMethod /\ [][NextMethod]_vars

(* Rejections: the one-domain server, requests for its static directory and its
   route with its own Host and with another, enough of them to empty the bucket *)

MaxRejectReq == 8    \* requests served in one behaviour of SpecReject

RejectRequests == {Req(h, p, "10.0.0.1", FALSE) : h \in {D_a, D_b}, p \in {P_root, P_api}}

InitReject == Init /\ disk = Disk(Yaml(CfgOne), TRUE, <<>>)

NextReject ==
    \/ Startup
    \/ Request(RejectRequests, {"ok"}, MaxRejectReq)

SpecReject == InitReject /\ [][NextReject]_vars

(* The host check: the one-domain server, requests for its static directory and its
   route with Host headers that are the domain, the domain with a port, the domain
   with something else after a colon, and other names *)

MaxHostReq == 2      \* requests served in one behaviour of SpecHost

HostRequests ==
    {Req(h, p, "10.0.0.1", FALSE) :
        h \in {D_a, H_aPort, H_aJunk, D_b, H_other}, p \in {P_root, P_api}}

InitHost == Init /\ disk = Disk(Yaml(CfgOne), TRUE, <<>>)

NextHost ==
    \/ Startup
    \/ Request(HostRequests, {"ok"}, MaxHostReq)

SpecHost == InitHost /\ [][NextHost]_vars

(* Backend URLs that url.Parse rejects: a domain whose only route has one, a domain
   with such a route and a good one, and the one-domain server *)

MaxBadUrlReq == 2    \* requests served in one behaviour of SpecBadUrl

\* the route /api with a backend that does not parse
CfgBadUrl == Cfg(443, "", << Domain(D_a, "/srv/a", << Route(P_api, BadBackend) >>) >>)
\* the same, followed by a route that is in order
CfgBadUrlAndGood ==
    Cfg(443, "", << Domain(D_a, "/srv/a", << Route(P_api, BadBackend),
                                             Route(P_apikey, B1) >>) >>)

BadUrlRequests ==
    {Req(D_a, p, "10.0.0.1", gz) : p \in {P_root, P_api, P_apikey}, gz \in BOOLEAN}

\* the state after construction, with one of these files on disk
InitBadUrl ==
    /\ disk \in {Disk(Yaml(c), TRUE, <<>>) : c \in {CfgBadUrl, CfgBadUrlAndGood, CfgOne}}
    /\ pc = "notify" /\ config = CfgNone /\ boot = <<>> /\ mux = {} /\ tlsMode = ""
    /\ notify = FALSE /\ reloadChan = 0 /\ gpc = "none"
    /\ sighups = [env |-> 0, cli |-> 0] /\ cli = "none" /\ now = 0
    /\ limiters = NoEntries /\ responseCache = NoEntries
    /\ log = <<>> /\ inflight = <<>>

NextBadUrl ==
    \/ Startup
    \/ Request(BadUrlRequests, BackendOutcomes, MaxBadUrlReq)

SpecBadUrl == InitBadUrl /\ [][NextBadUrl]_vars

(* Signals in bursts: every set of files the server may start with, and SIGHUPs
   sent at any moment, also during startup and while a reload runs.  The goroutines
   of the process are scheduled: main goes on while it can, the reload goroutine
   receives when the channel holds a signal, and reloadConfig returns. *)

MaxSignals == 3      \* SIGHUPs sent in one behaviour of SpecSignal

SignalBurst ==
    /\ sighups.env < MaxSignals
    /\ kill("env", ServerPid)
    /\ UNCHANGED <<disk, config, boot, mux, tlsMode, notify, gpc, now, limiters,
                   responseCache, log, inflight>>

NextSignal ==
    \/ Startup
    \/ ReloadRecv \/ ReloadConfig
    \/ SignalBurst

SpecSignal ==
    /\ Init /\ [][NextSignal]_vars
    /\ WF_vars(Startup) /\ WF_vars(ReloadRecv) /\ WF_vars(ReloadConfig)

(* Check mode beside run mode: `ghostgate -mode check` and the server are started
   on the same files, which nobody rewrites *)

\* the one-domain configuration without server.port
CfgNoPort == Cfg(0, "", << Domain(D_a, "/srv/a", << Route(P_api, B1) >>) >>)

\* validateConfig(configPath): nil, or the error that main reports with log.Fatalf
validateConfig(d) ==
    LET r == loadConfig(d.main)
    IN  IF r.err THEN "validation failed"
        ELSE IF r.config.port = 0 THEN "server port is not defined"
        ELSE IF Len(r.config.domains) = 0 THEN "at least one domain must be defined"
        ELSE "Configuration is valid."

CheckDisks ==
    {Disk(Yaml(c), TRUE, <<>>) : c \in {CfgNone, CfgOne, CfgNoPort, CfgDup, CfgReadme}}
        \cup {Disk(NoFile, TRUE, <<>>), Disk(BadYaml, TRUE, <<>>),
              Disk(Yaml(CfgOne), FALSE, <<>>)}

InitCheck ==
    /\ disk \in CheckDisks
    /\ pc = "notify" /\ config = CfgNone /\ boot = <<>> /\ mux = {} /\ tlsMode = ""
    /\ notify = FALSE /\ reloadChan = 0 /\ gpc = "none"
    /\ sighups = [env |-> 0, cli |-> 0] /\ cli = "none" /\ now = 0
    /\ limiters = NoEntries /\ responseCache = NoEntries
    /\ log = <<>> /\ inflight = <<>>

\* `ghostgate -mode check` runs and prints its verdict
CheckMode ==
    /\ cli = "none"
    /\ cli' = validateConfig(disk)
    /\ UNCHANGED <<disk, pc, config, boot, mux, tlsMode, notify, reloadChan, gpc,
                   sighups, now, limiters, responseCache, log, inflight>>

NextCheck ==
    \/ Startup
    \/ CheckMode
    \/ Request(Requests, BackendOutcomes, MaxReq)

SpecCheck == InitCheck /\ [][NextCheck]_vars

-----------------------------------------------------------------------------
(* What the claims speak about *)

Entries == {log[k] : k \in 1..Len(log)}

\* startup read one configuration throughout (no reload raced with it)
bootConsistent == boot # <<>> /\ \A i \in 1..Len(boot) : boot[i] = boot[1]

domainsOf(c) == {c.domains[i] : i \in 1..Len(c.domains)}

\* a race-free startup from configuration c: where main ends, the mux and the TLS setup
startupOf(c) ==
    LET b1 == registerDomains(Built(FALSE, {}), c.domains)
        b2 == registerFallback(b1, c)
    IN  IF b2.panic THEN [pc |-> "panicked", mux |-> {}, tlsMode |-> ""]
        ELSE [pc |-> "serving", mux |-> b2.mux,
              tlsMode |-> IF c.tlsCert = "" THEN "autocert" ELSE c.tlsCert]

\* what decides the response to r under mux m: the handler that produces it, every
\* 404 and every redirect counting as one
routeOf(m, r) ==
    LET pattern == muxMatch(m, r.path)
        h == muxEntry(m, pattern).h
    IN  IF muxRedirects(m, r.path) THEN Handler("redirect", <<>>, "")
        ELSE IF pattern = <<>> THEN Handler("404", <<>>, "")
        ELSE IF h.kind \in {"static", "proxy"} /\ ~hostMatches(h.domain, r.host)
        THEN Handler("404", <<>>, "")
        ELSE h

\* the spec's literal-route match: the path is the route's path or lies under it
prefixMatch(routePath, path) == path = routePath \/ HasPrefix(path, routePath \o <<"/">>)

routePaths(d) == {d.proxyRoutes[i].path : i \in 1..Len(d.proxyRoutes)}

\* the response carries content of a domain: its files, its backend, or a cached copy
servesContent(e) == e.ran \in {"static", "proxy"} \/ e.hit

-----------------------------------------------------------------------------
(* C1: with two or more distinct domains that each have a static_dir, startup
   completes and every request whose Host is one of the domains is answered from
   that domain's static directory or proxy routes. *)
twoStaticDomains(c) ==
    \E i, j \in 1..Len(c.domains) :
        /\ c.domains[i].domain # c.domains[j].domain
        /\ c.domains[i].staticDir # "" /\ c.domains[j].staticDir # ""

C1_VirtualHostsServed ==
    (bootConsistent /\ twoStaticDomains(boot[1])) =>
        /\ pc # "panicked"
        /\ \A e \in Entries : \A d \in domainsOf(boot[1]) :
              e.req.host = d.domain => (servesContent(e) /\ e.owner = d.domain)

(* C2: a literal route /api handles /api and every path under /api/, and no path
   that only shares its characters, such as /apikey. *)
C2_LiteralRouteIsPrefix ==
    \A e \in Entries : \A x \in mux :
        (x.h.kind = "proxy" /\ x.pattern = P_api /\ hostMatches(x.h.domain, e.req.host)) =>
            (e.limited = P_api <=> prefixMatch(P_api, e.req.path))

(* C3: when the same domain is listed twice, building the routing table is no
   error and every request for that Host is resolved by the rule listed first. *)
listedTwice(c) ==
    \E i, j \in 1..Len(c.domains) : i < j /\ c.domains[i].domain = c.domains[j].domain

firstRule(c, domain) ==
    c.domains[CHOOSE i \in 1..Len(c.domains) :
                 /\ c.domains[i].domain = domain
                 /\ \A j \in 1..(i - 1) : c.domains[j].domain # domain]

C3_FirstDomainRuleWins ==
    (bootConsistent /\ listedTwice(boot[1])) =>
        /\ pc # "panicked"
        /\ \A e \in Entries : \A d \in domainsOf(boot[1]) :
              (hostMatches(d.domain, e.req.host) /\ e.ran = "static") =>
                  e.resp.body.dir = firstRule(boot[1], d.domain).staticDir

(* C4: a request whose Host matches domain D and whose path matches none of D's
   own routes gets D's static content when D has a static_dir and a 404 otherwise,
   whatever routes other domains configure.  (/health and the mux's own redirect
   to a pattern with a trailing slash are left out: they are answered before any
   domain's handler is chosen.) *)
C4_OtherDomainsRoutesDoNotMatter ==
    bootConsistent =>
        \A e \in Entries : \A d \in domainsOf(boot[1]) :
            ( /\ ~listedTwice(boot[1])
              /\ hostMatches(d.domain, e.req.host)
              /\ e.req.path # P_health
              /\ ~muxRedirects(mux, e.req.path)
              /\ \A q \in routePaths(d) : ~prefixMatch(q, e.req.path) ) =>
                IF d.staticDir # ""
                THEN e.owner = d.domain /\ e.ran = "static"
                ELSE e.resp.status = 404

(* C5: with at least one domain configured, a request whose Host matches no
   configured domain gets 404 for every path, never the welcome page or a
   domain's content. *)
\* the Host header names the domain: equal to it once a trailing ":port" is removed
isDigit(ch) == ch \in {"0", "1", "2", "3", "4", "5", "6", "7", "8", "9"}

stripPort(host) ==
    LET colons == {i \in 1..Len(host) : host[i] = ":"}
    IN  IF colons = {} THEN host
        ELSE LET last == CHOOSE i \in colons : \A j \in colons : j <= i
             IN  IF last < Len(host) /\ \A k \in (last + 1)..Len(host) : isDigit(host[k])
                 THEN SubSeq(host, 1, last - 1)
                 ELSE host

names(host, domain) == stripPort(host) = domain

someDomainConfigured == boot # <<>> /\ \A i \in 1..Len(boot) : Len(boot[i].domains) > 0

unknownHost(e) ==
    \A i \in 1..Len(boot) : \A d \in domainsOf(boot[i]) : ~names(e.req.host, d.domain)

routeEntries(pattern) == SelectSeq(log, LAMBDA e : e.limited = pattern)

count(seq, from, to, P(_)) == Cardinality({k \in from..to : P(seq[k])})

forwarded(e) == e.fwd
rejected429(e) == ~e.fwd /\ e.resp.status = 429

C6_SharedBucket ==
    \A x \in mux : x.h.kind = "proxy" =>
        LET rs == routeEntries(x.pattern)
        IN  \A i \in 1..Len(rs) :
                ( /\ i + LimiterBurst <= Len(rs)
                  /\ rs[i].full
                  /\ rs[i + LimiterBurst].t - rs[i].t < TicksPerSec ) =>
                    /\ count(rs, i, i + LimiterBurst, forwarded) = LimiterBurst
                    /\ count(rs, i, i + LimiterBurst, rejected429) = 1

\* six requests of one second, from both addresses: five forwarded, the sixth 429
C6_Witness ==
    LET rs == routeEntries(P_api)
    IN  /\ Len(rs) = LimiterBurst + 1
        /\ rs[1].full
        /\ rs[LimiterBurst + 1].t - rs[1].t < TicksPerSec
        /\ {rs[k].req.remote : k \in 1..Len(rs)} = Remotes
        /\ rs[LimiterBurst].fwd /\ rs[LimiterBurst].req.remote # rs[1].req.remote
        /\ rejected429(rs[LimiterBurst + 1])

(* C7: on every cacheable route (static or proxy), the second of two identical
   requests within the cache TTL gets a response identical to the first in status,
   headers and body, and the terminal handler or backend runs once for the pair.
   (Stated on status and body: the headers are in resp as well, and differ too.) *)
cacheable(r) == routeOf(mux, r).kind \in {"static", "proxy"}

C7_SecondResponseIdentical ==
    \A i, j \in 1..Len(log) :
        ( /\ i < j
          /\ log[i].req = log[j].req
          /\ cacheable(log[i].req)
          /\ log[j].t - log[i].t < CacheTTL ) =>
            /\ log[j].resp.status = log[i].resp.status
            /\ log[j].resp.body = log[i].resp.body
            /\ log[i].ran # ""
            /\ log[j].ran = ""

(* C8: whatever the interleaving of a reload with startup, what decides the
   responses (the registered handlers, welcome page or /health, the TLS setup) comes
   from one configuration snapshot. *)
C8_OneSnapshot ==
    (boot # <<>> /\ pc \in {"serving", "panicked", "fatal"}) =>
        \E i \in 1..Len(boot) :
            LET s == startupOf(boot[i])
            IN  /\ s.pc = pc
                /\ pc = "serving" => (s.mux = mux /\ s.tlsMode = tlsMode)

(* C9: once a reload has put a different configuration in place, every later
   request is routed as that configuration says. *)
C9_RoutedByReloadedConfig ==
    \A e \in Entries :
        startupOf(e.cfg).pc = "serving" =>
            routeOf(mux, e.req) = routeOf(startupOf(e.cfg).mux, e.req)

(* C10: the reload command, run while the server is running, delivers SIGHUP to
   the server process. *)
C10_ReloadCommandSignalsServer ==
    (cli \in {"killed", "exited"} /\ alive) => sighups["cli"] > 0

(* C11: when reading or parsing any configuration file fails during a reload (the
   main file or any conf.d/*.conf file), the reload fails: the configuration that
   was active stays in place unchanged.  (The report of the failure is a log line,
   which is not part of the state.) *)
unreadable(content) == content.kind # "yaml"

someFileFails(d) ==
    \/ unreadable(d.main)
    \/ \E i \in 1..Len(d.confd) : d.confd[i].isConf /\ unreadable(d.confd[i].content)

reloadRuns == gpc = "reload" /\ gpc' = "recv"

C11_FailedReloadKeepsConfig ==
    [][(reloadRuns /\ someFileFails(disk)) => config' = config]_vars

(* C12: every request to a static domain, with any method, whose path has ".."
   segments (raw or percent-encoded) that resolve outside the domain's static root
   gets status 403 or 404, and neither file contents nor a directory listing from
   outside the root is sent. *)
\* walking the segments from the root, some ".." steps above it
RECURSIVE climbsOut(_, _)
climbsOut(segs, depth) ==
    IF segs = <<>> THEN FALSE
    ELSE IF Head(segs) = DotDot THEN depth = 0 \/ climbsOut(Tail(segs), depth - 1)
    ELSE IF Head(segs) \in {<<>>, <<".">>} THEN climbsOut(Tail(segs), depth)
    ELSE climbsOut(Tail(segs), depth + 1)

resolvesOutside(r) == climbsOut(segments(unescape(r.raw), <<>>), 0)

toStaticDomain(r) == \E x \in mux : x.h.kind = "static" /\ names(r.host, x.h.domain)

\* the body is a file or a listing found above the static directory
fromOutside(body) ==
    body.text \in {"file", "listing"} /\ HasPrefix(body.path, <<"/">> \o DotDot)

C12_NoTraversal ==
    \A e \in Entries :
        (toStaticDomain(e.req) /\ resolvesOutside(e.req)) =>
            (e.resp.status \in {403, 404} /\ ~fromOutside(e.resp.body))

(* C13: a proxy route whose configuration gives no rate limit (or a rate limit of
   0) is unlimited: no request to that route is ever answered 429, for any number
   of requests in any time window. *)
\* the rate limit a route configures; a route that names none has 0
rateLimitOf(route) == IF "rateLimit" \in DOMAIN route THEN route.rateLimit ELSE 0

routesOf(d) == {d.proxyRoutes[i] : i \in 1..Len(d.proxyRoutes)}

C13_UnconfiguredIsUnlimited ==
    \A e \in Entries : \A d \in domainsOf(e.cfg) : \A route \in routesOf(d) :
        ( /\ names(e.req.host, d.domain)
          /\ e.req.path = route.path
          /\ rateLimitOf(route) = 0 ) =>
            e.resp.status # 429

(* C14: when the backend of a proxy route refuses the connection, times out or
   answers malformed, that request gets a 502/504-class response, the process does
   not crash, and both listeners keep serving every later request. *)
backendFailed(e) == e.fwd /\ e.outcome \in BackendFailures

\* requests accepted after log[k] were served on their listener
laterServed(k) ==
    \A j \in (k + 1)..Len(log) :
        IF log[j].listener = "http" THEN log[j].resp.status = 301
        ELSE IF log[j].fwd /\ log[j].outcome = "ok" THEN log[j].resp.status = 200
        ELSE log[j].resp # Pending

C14_BackendFailureIs502 ==
    \A k \in 1..Len(log) :
        backendFailed(log[k]) =>
            /\ log[k].resp.status \in {502, 504}
            /\ pc = "serving"
            /\ laterServed(k)

\* after a refused connection, a request on each listener has been served, the one
\* on the TLS listener by the same route
C14_Witness ==
    /\ Len(log) = MaxBackendReq
    /\ backendFailed(log[1]) /\ log[1].outcome = "refused"
    /\ \E i, j \in 2..Len(log) :
          /\ log[i].listener = "http"
          /\ log[j].listener = "https" /\ log[j].fwd /\ log[j].resp.status = 200

(* C17: no request blocks indefinitely: every proxied request eventually completes
   with a response, even when the backend accepts the connection and never
   answers. *)
C17_EveryRequestCompletes == (inflight # <<>>) ~> (inflight = <<>>)

(* C15: started with no configuration present (the main file or the conf.d
   directory missing, or a configuration that defines no domains), GhostGate starts
   serving and answers every path with the welcome page. *)
noConfigPresent(d) ==
    \/ d.main.kind = "missing"
    \/ ~d.hasConfDir
    \/ (d.main.kind = "yaml" /\ mergeConfd(d.main.cfg.domains, d.confd) = <<>>)

\* main has run loadConfigs
loaded == pc \notin {"notify", "load"}

C15_WelcomeWithoutConfig ==
    (loaded /\ noConfigPresent(disk)) =>
        /\ pc \notin {"fatal", "panicked"}
        /\ \A e \in Entries : e.resp = sniffed(serveWelcomePage)

(* C16: when at least one domain is configured, GET /health returns 200 with the
   fixed body OK; when no domain is configured there is no health endpoint and a
   request for /health gets the welcome page. *)
noDomainConfigured == boot # <<>> /\ \A i \in 1..Len(boot) : Len(boot[i].domains) = 0

C16_HealthEndpoint ==
    \A e \in Entries :
        (e.req.method = "GET" /\ e.req.path = P_health) =>
            /\ someDomainConfigured =>
                  (e.resp.status = 200 /\ e.resp.body = Text("OK") /\ e.ran = "health")
            /\ noDomainConfigured => (e.ran = "welcome" /\ e.resp = sniffed(serveWelcomePage))

\* /health was asked of a server with a domain, under a Host that is no configured
\* domain
C16_Witness ==
    \E e \in Entries :
        /\ e.req.path = P_health /\ e.req.host = H_other
        /\ someDomainConfigured /\ e.resp.status = 200 /\ e.resp.body = Text("OK")

(* C20: every request for a path that does not exist under the static root gets
   status 404, the second and later requests for the same URL within the cache TTL
   included; a permission failure likewise gets 403 on every request. *)
\* what os.Stat finds for a request that the static handler of a domain answers
statOf(r) == osStat(routeOf(mux, r).target, joinClean(r.path))

C20_MissingIs404 ==
    \A e \in Entries :
        routeOf(mux, e.req).kind = "static" =>
            /\ statOf(e.req) = "none" => e.resp.status = 404
            /\ statOf(e.req) = "denied" => e.resp.status = 403

(* C19: every request accepted by either listener ends with exactly one HTTP
   response: on every path through the host check, compression, cache (hit or
   miss), rate limiter and terminal handler, a status is written exactly once,
   never twice and never zero times. *)
\* the status lines the calls put on the connection: one for each WriteHeader, and
\* one implied by a Write that no WriteHeader preceded
statusesWritten(writes) ==
    Cardinality({i \in 1..Len(writes) : writes[i] = "WriteHeader"})
        + (IF writes # <<>> /\ writes[1] = "Write" THEN 1 ELSE 0)

C19_ExactlyOneResponse ==
    \A e \in Entries : statusesWritten(e.writes) = 1 /\ e.resp.status > 0

\* a compressed cache hit, after a miss for the same URL, and a request to the
\* proxy route
C19_Witness ==
    /\ \E e \in Entries : e.hit /\ e.req.gzip /\ e.writes = <<"Write", "Write">>
    /\ \E e \in Entries : ~e.hit /\ e.ran = "static" /\ e.writes[1] = "WriteHeader"

(* C18: when concurrent requests miss on the same cache key, each may run the
   handler and write the entry, and at every moment the value stored under the key
   is the complete body produced by exactly one of those handler runs (the last
   writer's); a concurrent reader sees no entry or a complete one, never a partial
   or mixed value. *)
\* the body a handler run produced, as the client got it before compression
plain(body) == [body EXCEPT !.gz = FALSE]

\* the handler runs for a key that have finished, in the order they stored
runsFor(key) == SelectSeq(log, LAMBDA e : e.ran = "static" /\ cacheKey(e.req) = key)

C18_CacheHoldsCompleteBodies ==
    /\ \A key \in DOMAIN responseCache :
          LET runs == runsFor(key)
          IN  /\ runs # <<>>
              /\ responseCache[key].body = plain(runs[Len(runs)].resp.body)
              /\ responseCache[key].body.text # "partial"
    /\ \A e \in Entries :
          e.hit => \E k \in 1..Len(runsFor(cacheKey(e.req))) :
                      plain(e.resp.body) = plain(runsFor(cacheKey(e.req))[k].resp.body)

\* two requests missed on the same key; one has stored its body, a reader has got
\* it from the cache, and the other's handler is still writing to its recorder
C18_Witness ==
    \E k \in 1..Len(inflight) : \E i, j \in 1..Len(log) :
        /\ inflight[k].stage = "handler" /\ inflight[k].rec.body.text = "partial"
        /\ log[i].ran = "static" /\ cacheKey(log[i].req) = cacheKey(inflight[k].req)
        /\ log[j].hit /\ cacheKey(log[j].req) = cacheKey(inflight[k].req)
        /\ cacheKey(inflight[k].req) \in DOMAIN responseCache

(* C21: a cache entry is served only to a request whose key matches the request
   that stored it: a response produced for one HTTP method is never served from
   the cache to a request with a different method for the same URL. *)
\* the request at position j of the log went through the static handler and stored
\* its body under key
stores(j, key) == ~log[j].hit /\ log[j].ran = "static" /\ cacheKey(log[j].req) = key

\* the request whose entry the cache hit at position k was served from: the last
\* one before k that stored under k's key
storedFor(j, k) ==
    /\ j < k
    /\ stores(j, cacheKey(log[k].req))
    /\ \A i \in (j + 1)..(k - 1) : ~stores(i, cacheKey(log[k].req))

C21_HitHasStoringMethod ==
    \A k \in 1..Len(log) : log[k].hit =>
        \A j \in 1..Len(log) : storedFor(j, k) => log[j].req.method = log[k].req.method

(* C22: there is a fixed body-size limit such that a response whose body exceeds
   it is relayed to the client but never stored in the response cache; in every
   reachable state every cached value is at most that limit. *)
MaxFileSize == 3     \* the size of the file /api/v2/users, in units of the index's size

\* len(recorder.Body.Bytes())
bodySize(body) ==
    IF body.text = "" THEN 0
    ELSE IF body.text = "file" THEN MaxFileSize
    ELSE 1

\* the limits that some body of the static directory exceeds
SizeLimits == 0..(MaxFileSize - 1)

C22_CachedBodiesWithinLimit ==
    \E limit \in SizeLimits :
        \A key \in DOMAIN responseCache : bodySize(responseCache[key].body) <= limit

(* C23: a client whose Accept-Encoding does not advertise gzip never receives a
   gzip-compressed body or a Content-Encoding: gzip header, also when the response
   comes from a cache entry stored by a request that accepted gzip; a client that
   accepts gzip receives the body compressed exactly once, on a hit and on a miss. *)
\* the request went through gzipMiddleware: the static chain, served from the
\* cache or by the handler
throughGzip(e) == e.hit \/ e.ran = "static"

forwardedOf(pattern) == SelectSeq(routeEntries(pattern), forwarded)

tokensInRange ==
    \A p \in DOMAIN limiters :
        0 <= limiters[p].tokens /\ limiters[p].tokens <= LimiterBurst * TicksPerSec

\* n forwarded requests, the first and the last d ticks apart: n <= 5 + d / TicksPerSec
windowBound ==
    \A p \in DOMAIN limiters :
        LET fs == forwardedOf(p)
        IN  \A i, j \in 1..Len(fs) :
                i <= j =>
                    (j - i + 1) * TicksPerSec
                        <= LimiterBurst * TicksPerSec + (fs[j].t - fs[i].t) * LimiterRate

\* the request served in this step, if one was
served ==
    IF Len(log') = Len(log) + 1 THEN {log'[Len(log')]} ELSE {}

\* a forwarded request leaves the bucket refilled for the time since its last
\* update, capped at the burst, less one token; nothing else changes a bucket
takesOneToken ==
    \A p \in DOMAIN limiters :
        LET refilled == Min(LimiterBurst * TicksPerSec,
                            limiters[p].tokens + (now - limiters[p].last) * LimiterRate)
        IN  IF \E e \in served : e.fwd /\ e.limited = p
            THEN limiters'[p] = [tokens |-> refilled - TicksPerSec, last |-> now]
            ELSE limiters'[p] = limiters[p]

C24_TokenBucket == [](tokensInRange /\ windowBound) /\ [][takesOneToken]_vars

\* the burst of five is forwarded at once, the next request is rejected, and one
\* second later a sixth is forwarded and empties the bucket again
C24_Witness ==
    LET fs == forwardedOf(P_api)
    IN  /\ Len(fs) = LimiterBurst + 1
        /\ fs[LimiterBurst].t = fs[1].t
        /\ fs[LimiterBurst + 1].t = fs[1].t + TicksPerSec
        /\ limiters[P_api].tokens = 0

(* C25: a request rejected by a stage (404 from the host check, 429 from the rate
   limiter) never reaches any later stage: the backend is not contacted, the
   X-Forwarded-For header is not set, and the response cache is neither read nor
   written for that request. *)
\* the mux gave the request to a hostHandler whose domain is not the request's Host
failsHostCheck(r) ==
    LET pattern == muxMatch(mux, muxPath(r))
    IN  /\ ~muxRedirects(mux, muxPath(r)) /\ ~muxCleans(r)
        /\ pattern # <<>>
        /\ muxEntry(mux, pattern).h.kind \in {"static", "proxy"}
        /\ ~(r.host = muxEntry(mux, pattern).h.domain
                \/ HasPrefix(r.host, muxEntry(mux, pattern).h.domain \o <<":">>))

rejectedByStage(e) ==
    (failsHostCheck(e.req) /\ e.resp.status = 404) \/ e.resp.status = 429

\* no later stage ran for the request
stoppedThere(e) ==
    /\ ~e.fwd /\ e.outcome = ""        \* proxy.ServeHTTP not called
    /\ e.xff = ""                      \* r.Header.Set("X-Forwarded-For", ...) not reached
    /\ ~e.hit /\ e.ran = ""            \* cacheMiddleware and the static handler not entered

C25_RejectionEndsChain ==
    /\ [](\A e \in Entries : rejectedByStage(e) => stoppedThere(e))
    /\ [][\A e \in served : rejectedByStage(e) => responseCache' = responseCache]_vars

\* a request turned away by the limiter, and one turned away by the host check of
\* the static directory while the cache holds an entry for its URL
C25_Witness ==
    /\ \E e \in Entries : e.resp.status = 429
    /\ \E j, k \in 1..Len(log) :
          /\ j < k /\ stores(j, P_root)
          /\ failsHostCheck(log[k].req) /\ log[k].req.path = P_root

(* C26: the host check accepts a request exactly when the Host header with a
   trailing :port removed is string-equal to the configured domain; for every
   other Host value, including values that only begin with the domain followed by
   a colon, it answers 404 without invoking the wrapped handler. *)
\* the mux gave the request to a hostHandler
hostChecked(r) ==
    /\ ~muxRedirects(mux, muxPath(r)) /\ ~muxCleans(r)
    /\ muxMatch(mux, muxPath(r)) # <<>>
    /\ muxEntry(mux, muxMatch(mux, muxPath(r))).h.kind \in {"static", "proxy"}

checkedDomain(r) == muxEntry(mux, muxMatch(mux, muxPath(r))).h.domain

\* the handler that hostHandler wraps was called: the cache answered, the static
\* handler ran, or the limiter was asked
wrappedInvoked(e) == e.hit \/ e.ran # "" \/ e.limited # <<>>

C26_HostCheckIsExact ==
    \A e \in Entries : hostChecked(e.req) =>
        IF names(e.req.host, checkedDomain(e.req))
        THEN wrappedInvoked(e)
        ELSE ~wrappedInvoked(e) /\ e.resp.status = 404

(* C27: a configuration that contains a proxy route with an unparseable backend
   URL never becomes the active routing table: it is rejected as a whole at load
   time, rather than being served with that route silently dropped. *)
hasUnparseableBackend(c) ==
    \E d \in domainsOf(c) : \E route \in routesOf(d) : urlParseFails(route.backend)

\* the server serves with a routing table only if the configuration it was built
\* from has no such route
C27_BadBackendRejected ==
    pc = "serving" => \A i \in 1..Len(boot) : ~hasUnparseableBackend(boot[i])

(* C28: a request whose Host does not match a proxy route's domain never consumes
   a token from that route's limiter: in every reachable state the tokens taken
   from a route's bucket equal the number of Host-matching requests that reached
   the limiter, so traffic addressed to other hosts cannot cause 429 for the
   domain.  (No time passes in SpecReject, so no bucket is refilled.) *)
\* the mux gave the request at position k to the route registered at pattern
routedTo(k, pattern) ==
    /\ ~muxRedirects(mux, muxPath(log[k].req)) /\ ~muxCleans(log[k].req)
    /\ muxMatch(mux, muxPath(log[k].req)) = pattern

\* the tokens missing from the bucket of the route, in whole tokens
tokensTaken(pattern) ==
    (LimiterBurst * TicksPerSec - limiters[pattern].tokens) \div TicksPerSec

\* the requests of the route whose Host passed hostHandler: they reached limiter.Allow()
reachedLimiter(pattern) ==
    {k \in 1..Len(log) :
        /\ routedTo(k, pattern)
        /\ hostMatches(muxEntry(mux, pattern).h.domain, log[k].req.host)}

\* the requests of the route with another Host
otherHosts(pattern) ==
    {k \in 1..Len(log) :
        /\ routedTo(k, pattern)
        /\ ~hostMatches(muxEntry(mux, pattern).h.domain, log[k].req.host)}

C28_TokensEqualMatchingRequests ==
    \A p \in DOMAIN limiters :
        /\ tokensTaken(p) = Cardinality(reachedLimiter(p))
        /\ \A k \in otherHosts(p) : log[k].limited = <<>> /\ log[k].resp.status # 429

(* C28 as amended: the tokens taken from a route's bucket equal the number of
   Host-matching requests that the limiter let through (a request it rejects with
   429 takes none), and a request with another Host neither reaches the limiter
   nor gets 429. *)
C28_TokensEqualAdmittedRequests ==
    \A p \in DOMAIN limiters :
        /\ tokensTaken(p) = Cardinality({k \in reachedLimiter(p) : log[k].resp.status # 429})
        /\ \A k \in reachedLimiter(p) : log[k].limited = p
        /\ \A k \in otherHosts(p) : log[k].limited = <<>> /\ log[k].resp.status # 429

\* requests for the route with another Host are turned away while the bucket is
\* drained by the domain's own requests, the sixth of which gets 429
C28_Witness ==
    /\ Cardinality(otherHosts(P_api)) >= 2
    /\ tokensTaken(P_api) = LimiterBurst
    /\ \E k \in reachedLimiter(P_api) : log[k].resp.status = 429
    /\ \E j \in otherHosts(P_api) : \E k \in reachedLimiter(P_api) : j < k /\ log[k].fwd

(* C29: once the SIGHUP handler is installed, every SIGHUP delivered to the server
   process is eventually followed by a reloadConfig run that starts after that
   signal arrived, also when signals arrive while a reload is in progress and are
   coalesced by the one-slot signal channel; the reload goroutine never stops
   consuming signals. *)
\* a SIGHUP that arrives once the handler is installed leaves a signal in the channel
deliveredIsPending ==
    (notify /\ sighups # sighups') => reloadChan' = 1

\* the channel is emptied only by the goroutine's receive, with which a
\* reloadConfig run starts
receiveStartsReload ==
    reloadChan' < reloadChan => (gpc = "recv" /\ gpc' = "reload")

bothDecided == cli # "none" /\ pc \in {"serving", "fatal", "panicked"}

C30_CheckAgreesWithRun ==
    bothDecided => (cli = "Configuration is valid." <=> pc = "serving")

====
